---- MODULE Spec2Model ----
(***************************************************************************)
(* A model of the rust-structs snippets: the Rectangle value type of       *)
(* src/method_syntax.rs (area, can_hold, square), the three free area      *)
(* functions of src/example_using_structs.rs, and the User instances that  *)
(* main() of src/main.rs creates and reassigns.                            *)
(*                                                                         *)
(* A u32 is kept at its full width.  TLC's integers stop at 2^31 - 1, so a *)
(* u32 is the pair <<hi, lo>> of its two 16-bit limbs, and the 32 x 32 bit *)
(* multiplication is carried out limb by limb.                             *)
(***************************************************************************)
EXTENDS Integers, Sequences, FiniteSets, TLC

VARIABLES overflow_checks, rect1, rect2, ret, pc, users

vars == <<overflow_checks, rect1, rect2, ret, pc, users>>

---------------------------------------------------------------------------
(* u32 arithmetic                                                          *)

\* One 16-bit limb has 2^16 values; a u32 is two limbs.
Limb == 65536

\* One byte has 2^8 values; a limb is two bytes.
Byte == 256

\* Small dimensions 0..MaxSmall are enumerated next to the edge values.
MaxSmall == 2

\* The u32 with the value n, for 0 <= n < 2^31.
U32(n) == <<n \div Limb, n % Limb>>

\* u32::MAX = 2^32 - 1.
U32Max == <<Limb - 1, Limb - 1>>

\* The operator > on two u32 values.
Gt(a, b) == \/ a[1] > b[1]
            \/ a[1] = b[1] /\ a[2] > b[2]

\* The exact product of two 16-bit limbs, as <<hi, lo>>, by bytes.
Mul16(a, b) ==
    LET a1 == a \div Byte
        a0 == a % Byte
        b1 == b \div Byte
        b0 == b % Byte
        mid == a1 * b0 + a0 * b1
        low == a0 * b0 + (mid % Byte) * Byte
    IN  <<a1 * b1 + (mid \div Byte) + (low \div Limb), low % Limb>>

\* The exact 64-bit product of two u32 values, as four limbs, the most
\* significant first.
WideMul(a, b) ==
    LET p00 == Mul16(a[2], b[2])
        p01 == Mul16(a[2], b[1])
        p10 == Mul16(a[1], b[2])
        p11 == Mul16(a[1], b[1])
        s1 == p00[1] + p01[2] + p10[2]
        s2 == p01[1] + p10[1] + p11[2] + (s1 \div Limb)
    IN  <<p11[1] + (s2 \div Limb), s2 % Limb, s1 % Limb, p00[2]>>

\* An operation's outcome: a returned value, or a panic of the thread.
Value(v) == [kind |-> "value", value |-> v]
Panic == [kind |-> "panic"]

\* MulU32 with the overflow check of an i32: a product from 2^31 on panics.
MulU32_signed_check(a, b, checks) ==
    LET p == WideMul(a, b)
    IN  IF checks /\ (p[1] # 0 \/ p[2] # 0 \/ p[3] >= 32768)
        THEN Panic
        ELSE Value(<<p[3], p[4]>>)

\* The operator * on two u32 values.  With overflow checks compiled in (the
\* debug profile) a product beyond u32::MAX panics with 'attempt to multiply
\* with overflow'; without them (the release profile) it wraps modulo 2^32.
MulU32(a, b, checks) ==
    LET p == WideMul(a, b)
    IN  IF checks /\ (p[1] # 0 \/ p[2] # 0)
        THEN Panic
        ELSE Value(<<p[3], p[4]>>)

---------------------------------------------------------------------------
(* src/method_syntax.rs                                                    *)

\* struct Rectangle { width: u32, height: u32 }
Rectangle(w, h) == [width |-> w, height |-> h]

\* Rectangle_area with the width taken twice.
Rectangle_area_width_twice(self, checks) ==
    MulU32(self.width, self.width, checks)

\* fn area(&self) -> u32
Rectangle_area(self, checks) == MulU32(self.width, self.height, checks)

\* Rectangle_can_hold with || for &&.
Rectangle_can_hold_either(self, other) ==
    Gt(self.width, other.width) \/ Gt(self.height, other.height)

\* Rectangle_can_hold with != for >.
Rectangle_can_hold_differs(self, other) ==
    self.width # other.width /\ self.height # other.height

\* Rectangle_can_hold comparing the areas.
Rectangle_can_hold_by_area(self, other) ==
    LET a == WideMul(self.width, self.height)
        b == WideMul(other.width, other.height)
    IN  Gt(<<a[3], a[4]>>, <<b[3], b[4]>>)

\* Rectangle_can_hold with >= for >.
Rectangle_can_hold_or_equal(self, other) ==
    /\ Gt(self.width, other.width) \/ self.width = other.width
    /\ Gt(self.height, other.height) \/ self.height = other.height

\* fn can_hold(&self, other: &Rectangle) -> bool
Rectangle_can_hold(self, other) ==
    Gt(self.width, other.width) /\ Gt(self.height, other.height)

\* Rectangle_square with the height left at 1.
Rectangle_square_unit_height(size) == [width |-> size, height |-> U32(1)]

\* fn square(size: u32) -> Rectangle
Rectangle_square(size) == [width |-> size, height |-> size]

---------------------------------------------------------------------------
(* src/example_using_structs.rs                                            *)

\* fn area(width: u32, height: u32) -> u32
area(width, height, checks) == MulU32(width, height, checks)

\* area_with_tuple with the index 0 taken twice.
area_with_tuple_index_0_twice(dimensions, checks) ==
    MulU32(dimensions[1], dimensions[1], checks)

\* fn area_with_tuple(dimensions: (u32, u32)) -> u32
area_with_tuple(dimensions, checks) ==
    MulU32(dimensions[1], dimensions[2], checks)

\* fn area_using_struct(rectangle: &Rectangle) -> u32
area_using_struct(rectangle, checks) ==
    MulU32(rectangle.width, rectangle.height, checks)

---------------------------------------------------------------------------
(* The calls on Rectangle values                                           *)

\* The u32 values the dimensions are drawn from: the small ones, the
\* largest value with a square that fits (2^16 - 1), the smallest with a
\* square that does not (2^16), and u32::MAX.
Dims == {U32(n) : n \in 0..MaxSmall} \cup {U32(65535), U32(65536), U32Max}

\* The rectangles of main and main_2: rect1, rect2 and rect3.
MainRects == {Rectangle(U32(30), U32(50)), Rectangle(U32(10), U32(40)),
              Rectangle(U32(60), U32(45))}

Rects == {Rectangle(w, h) : w \in Dims, h \in Dims} \cup MainRects

\* The sizes square is called with; asd calls square(3).
Sizes == Dims \cup {U32(3)}

\* The record of the latest call: the function, its arguments, its outcome.
Call(op, args, out) == [op |-> op, args |-> args, out |-> out]
NoCall == Call("none", <<>>, <<>>)

\* The functions that multiply.
AreaOps == {"Rectangle::area", "area", "area_with_tuple", "area_using_struct"}

\* The snippets run one after the other: the statements of main.rs first
\* (they share no state with the Rectangle calls, so the order between the
\* two does not matter), then the calls, in any order and any number.  A
\* panic unwinds the main thread and ends the program: nothing is called
\* after it.
Running ==
    /\ pc = "done"
    /\ ~(ret.op \in AreaOps /\ ret.out.kind = "panic")

\* let rect1 = Rectangle { .. }; let rect2 = Rectangle { .. };
Binding(name) == IF name = "rect1" THEN rect1 ELSE rect2
Bindings == {"rect1", "rect2"}

\* CallArea with a receiver &mut self that normalises the rectangle to
\* width <= height before it multiplies.
CallArea_mut_self(self) ==
    LET r == Binding(self)
        n == IF Gt(r.width, r.height) THEN Rectangle(r.height, r.width) ELSE r
    IN  /\ Running
        /\ ret' = Call("Rectangle::area", <<r>>,
                       Rectangle_area(r, overflow_checks))
        /\ rect1' = IF self = "rect1" THEN n ELSE rect1
        /\ rect2' = IF self = "rect2" THEN n ELSE rect2
        /\ UNCHANGED <<overflow_checks, pc, users>>

\* rect.area()
CallArea(self) ==
    /\ Running
    /\ ret' = Call("Rectangle::area", <<Binding(self)>>,
                   Rectangle_area(Binding(self), overflow_checks))
    /\ UNCHANGED <<overflow_checks, rect1, rect2, pc, users>>

\* rect.can_hold(&other)
CallCanHold(self, other) ==
    /\ Running
    /\ ret' = Call("Rectangle::can_hold", <<Binding(self), Binding(other)>>,
                   Rectangle_can_hold(Binding(self), Binding(other)))
    /\ UNCHANGED <<overflow_checks, rect1, rect2, pc, users>>

\* let sq = Rectangle::square(size);
CallSquare(size) ==
    /\ Running
    /\ ret' = Call("Rectangle::square", <<size>>, Rectangle_square(size))
    /\ UNCHANGED <<overflow_checks, rect1, rect2, pc, users>>

\* area(width1, height1)
CallAreaFn ==
    /\ Running
    /\ ret' = Call("area", <<rect1.width, rect1.height>>,
                   area(rect1.width, rect1.height, overflow_checks))
    /\ UNCHANGED <<overflow_checks, rect1, rect2, pc, users>>

\* area_with_tuple(rect1), rect1 a tuple (width, height)
CallAreaWithTuple ==
    /\ Running
    /\ ret' = Call("area_with_tuple", <<<<rect1.width, rect1.height>>>>,
                   area_with_tuple(<<rect1.width, rect1.height>>,
                                   overflow_checks))
    /\ UNCHANGED <<overflow_checks, rect1, rect2, pc, users>>

\* area_using_struct(&rect1)
CallAreaUsingStruct ==
    /\ Running
    /\ ret' = Call("area_using_struct", <<rect1>>,
                   area_using_struct(rect1, overflow_checks))
    /\ UNCHANGED <<overflow_checks, rect1, rect2, pc, users>>

---------------------------------------------------------------------------
(* src/main.rs: the User instances of main                                 *)

\* struct User { username: String, email: String, sign_in_count: u64,
\*               active: bool }
User(email, username, active, sign_in_count) ==
    [username |-> username, email |-> email,
     sign_in_count |-> sign_in_count, active |-> active]

UserFields == {"username", "email", "sign_in_count", "active"}

\* main creates four instances, named here user1, user2, user2_85 and
\* user2_93 after the line of their let: the second and the third user2
\* shadow the first.  Only the first user2 is declared mut.
Mutable == {"user2"}

\* let name = v;
Let(env, name, v) ==
    [n \in DOMAIN env \cup {name} |-> IF n = name THEN v ELSE env[n]]

\* instance.field = v;
Assign(env, name, field, v) ==
    [env EXCEPT ![name] = [env[name] EXCEPT ![field] = v]]

\* let user1 = User { .. };
LetUser1 ==
    /\ pc = "L36"
    /\ users' = Let(users, "user1",
                    User("someone@example.com", "someusername123", TRUE, 1))
    /\ pc' = "L47"
    /\ UNCHANGED <<overflow_checks, rect1, rect2, ret>>

\* let mut user2 = User { .. };
LetMutUser2 ==
    /\ pc = "L47"
    /\ users' = Let(users, "user2",
                    User("someone@mail.com", "someusername123", TRUE, 1))
    /\ pc' = "L54"
    /\ UNCHANGED <<overflow_checks, rect1, rect2, ret>>

\* AssignUser2Email written as a new User built from defaults.
AssignUser2Email_rebuild ==
    /\ pc = "L54"
    /\ users' = [users EXCEPT !["user2"] =
                    User("someone@example.com", users["user2"].username,
                         TRUE, 0)]
    /\ pc' = "L85"
    /\ UNCHANGED <<overflow_checks, rect1, rect2, ret>>

\* user2.email = String::from("someone@example.com");
AssignUser2Email ==
    /\ pc = "L54"
    /\ users' = Assign(users, "user2", "email", "someone@example.com")
    /\ pc' = "L85"
    /\ UNCHANGED <<overflow_checks, rect1, rect2, ret>>

\* let user2 = User { .., active: user1.active,
\*                    sign_in_count: user1.sign_in_count };
LetUser2Copy ==
    /\ pc = "L85"
    /\ users' = Let(users, "user2_85",
                    User("another@example.com", "anotherusername567",
                         users["user1"].active, users["user1"].sign_in_count))
    /\ pc' = "L93"
    /\ UNCHANGED <<overflow_checks, rect1, rect2, ret>>

\* let user2 = User { email: .., username: .., ..user1 };
LetUser2Update ==
    /\ pc = "L93"
    /\ users' = Let(users, "user2_93",
                    [users["user1"] EXCEPT !.email = "another@example.com",
                                           !.username = "anotherusername567"])
    /\ pc' = "done"
    /\ UNCHANGED <<overflow_checks, rect1, rect2, ret>>

---------------------------------------------------------------------------

Init ==
    /\ overflow_checks \in BOOLEAN
    /\ rect1 \in Rects
    /\ rect2 \in Rects
    /\ ret = NoCall
    /\ pc = "L36"
    /\ users = <<>>

Next ==
    \/ \E self \in Bindings : CallArea(self)
    \/ \E self \in Bindings, other \in Bindings : CallCanHold(self, other)
    \/ \E size \in Sizes : CallSquare(size)
    \/ CallAreaFn
    \/ CallAreaWithTuple
    \/ CallAreaUsingStruct
    \/ LetUser1
    \/ LetMutUser2
    \/ AssignUser2Email
    \/ LetUser2Copy
    \/ LetUser2Update

Spec == Init /\ [][Next]_vars

---------------------------------------------------------------------------
(* The properties                                                          *)

\* The value of a u32 below 2^31, as an integer.
NatOf(u) == u[1] * Limb + u[2]
IsSmall(u) == u[1] = 0 /\ u[2] < 32768

\* a > b on u32 values, by their upper 31 bits and then their lowest bit.
Above(a, b) ==
    LET ha == a[1] * 32768 + (a[2] \div 2)
        hb == b[1] * 32768 + (b[2] \div 2)
    IN  ha > hb \/ (ha = hb /\ a[2] % 2 > b[2] % 2)

\* The product w * h of two u32 values, as four limbs, and whether it is a
\* u32.
Product(w, h) == WideMul(w, h)
Fits(w, h) == Product(w, h)[1] = 0 /\ Product(w, h)[2] = 0
Widen(u) == <<0, 0, u[1], u[2]>>

R30x50 == Rectangle(U32(30), U32(50))
R10x40 == Rectangle(U32(10), U32(40))
R60x45 == Rectangle(U32(60), U32(45))

AreaCalled == ret.op = "Rectangle::area"
CanHoldCalled == ret.op = "Rectangle::can_hold"
SquareCalled == ret.op = "Rectangle::square"

\* C1, as stated: for every Rectangle, whatever the size of its width and
\* height, area() returns the product width * height.
C1_AreaIsProduct ==
    AreaCalled =>
        /\ ret.out.kind = "value"
        /\ Widen(ret.out.value)
             = Product(ret.args[1].width, ret.args[1].height)

\* C1, amended: for every Rectangle whose product width * height is at most
\* u32::MAX, area() returns that product (1500 for Rectangle{30,50}); for a
\* larger product area() panics when overflow checks are compiled in and
\* returns the product modulo 2^32 when they are not.
C1_AreaIsProductWhenItFits ==
    AreaCalled =>
        LET w == ret.args[1].width
            h == ret.args[1].height
        IN  /\ Fits(w, h) =>
                 /\ ret.out.kind = "value"
                 /\ Widen(ret.out.value) = Product(w, h)
            /\ IsSmall(w) /\ IsSmall(h) =>
                 /\ ret.out.kind = "value"
                 /\ NatOf(ret.out.value) = NatOf(w) * NatOf(h)
            /\ ret.args[1] = R30x50 => ret.out = Value(U32(1500))
            /\ ~Fits(w, h) /\ overflow_checks => ret.out = Panic
            /\ ~Fits(w, h) /\ ~overflow_checks =>
                 /\ ret.out.kind = "value"
                 /\ ret.out.value = <<Product(w, h)[3], Product(w, h)[4]>>

C1_Witness ==
    /\ AreaCalled
    /\ ret.args[1] = R30x50
    /\ ret.out = Value(U32(1500))

\* C2: a.can_hold(b) is true exactly when a.width > b.width and
\* a.height > b.height, both strictly; Rectangle{30,50} holds
\* Rectangle{10,40} and does not hold Rectangle{60,45}.
C2_CanHoldIsStrictOnBoth ==
    CanHoldCalled =>
        LET a == ret.args[1]
            b == ret.args[2]
        IN  /\ ret.out = (Above(a.width, b.width) /\ Above(a.height, b.height))
            /\ (a = R30x50 /\ b = R10x40) => ret.out = TRUE
            /\ (a = R30x50 /\ b = R60x45) => ret.out = FALSE

C2_Witness ==
    /\ CanHoldCalled
    /\ ret.args = <<R30x50, R60x45>>
    /\ ret.out = FALSE

\* C3: Rectangle::square(n) returns a Rectangle of width n and height n,
\* that is Rectangle{n,n}; square(3) is Rectangle{3,3} and its area is 9.
C3_SquareHasEqualSides ==
    SquareCalled =>
        LET n == ret.args[1]
        IN  /\ ret.out.width = n
            /\ ret.out.height = n
            /\ ret.out = Rectangle(n, n)
            /\ n = U32(3) =>
                 /\ ret.out = Rectangle(U32(3), U32(3))
                 /\ Rectangle_area(ret.out, overflow_checks) = Value(U32(9))

C3_Witness ==
    /\ SquareCalled
    /\ ret.args = <<U32(3)>>
    /\ ret.out = Rectangle(U32(3), U32(3))

\* C4: can_hold is irreflexive: r.can_hold(r) is false, and so is
\* r.can_hold(r') for an r' of the same width and height, for every width
\* and height, 0 and u32::MAX included.
C4_CanHoldIsIrreflexive ==
    (CanHoldCalled /\ ret.args[1] = ret.args[2]) => ret.out = FALSE

C4_Witness ==
    /\ CanHoldCalled
    /\ ret.args = <<Rectangle(U32Max, U32(0)), Rectangle(U32Max, U32(0))>>
    /\ ret.out = FALSE

\* C5: can_hold is not symmetric: Rectangle{30,50}.can_hold(Rectangle{10,40})
\* is true and Rectangle{10,40}.can_hold(Rectangle{30,50}) is false, so the
\* two orders of one pair differ.
C5_CanHoldIsNotSymmetric ==
    /\ (CanHoldCalled /\ ret.args = <<R30x50, R10x40>>) => ret.out = TRUE
    /\ (CanHoldCalled /\ ret.args = <<R10x40, R30x50>>) => ret.out = FALSE

C5_Witness ==
    /\ CanHoldCalled
    /\ ret.args = <<R10x40, R30x50>>
    /\ ret.out = FALSE

\* A limb, a u32 and a Rectangle of the model.
IsLimb(x) == x \in 0..(Limb - 1)
IsU32(u) == Len(u) = 2 /\ IsLimb(u[1]) /\ IsLimb(u[2])
IsRectangle(r) ==
    DOMAIN r = {"width", "height"} /\ IsU32(r.width) /\ IsU32(r.height)

\* C6: the operations are total but for the overflow of the multiplication:
\* can_hold returns a boolean for every pair, square returns a Rectangle for
\* every size, and area returns the product of every Rectangle whose product
\* is a u32; where area does not return the product, the product is beyond
\* u32::MAX.
C6_TotalButForOverflow ==
    /\ CanHoldCalled => ret.out \in BOOLEAN
    /\ SquareCalled => IsRectangle(ret.out)
    /\ AreaCalled =>
        LET w == ret.args[1].width
            h == ret.args[1].height
            returned == /\ ret.out.kind = "value"
                        /\ IsU32(ret.out.value)
                        /\ Widen(ret.out.value) = Product(w, h)
        IN  /\ Fits(w, h) => returned
            /\ ~returned => ~Fits(w, h)
            /\ ret.out.kind \in {"value", "panic"}

\* 65535 * 65535 = 4294836225 = 65534 * 2^16 + 1, the largest square a u32
\* holds.
C6_Witness ==
    /\ AreaCalled
    /\ overflow_checks
    /\ ret.args = <<Rectangle(U32(65535), U32(65535))>>
    /\ ret.out = Value(<<65534, 1>>)

\* C7: area and can_hold are pure and deterministic: a call of either
\* leaves the width and the height of the receiver and of the argument as
\* they were, and a call repeated on the same field values returns what the
\* call before it returned.
C7_CallsArePure ==
    [][ ret'.op \in {"Rectangle::area", "Rectangle::can_hold"} =>
          /\ rect1' = rect1
          /\ rect2' = rect2
          /\ (ret'.op = ret.op /\ ret'.args = ret.args) => ret'.out = ret.out
      ]_vars

C7_Witness ==
    /\ CanHoldCalled
    /\ rect1 = R60x45
    /\ rect2 = R30x50
    /\ ret.args = <<rect2, rect1>>

\* The value area() returns for r; called where the product fits.
AreaOf(r) == Rectangle_area(r, overflow_checks).value

\* C8: the containment test is not a comparison of areas: Rectangle{60,45}
\* has the area 2700, greater than the 1500 of Rectangle{30,50}, and does
\* not hold it.
C8_CanHoldIsNotAreaComparison ==
    (CanHoldCalled /\ ret.args = <<R60x45, R30x50>>) =>
        /\ Above(AreaOf(ret.args[1]), AreaOf(ret.args[2]))
        /\ AreaOf(ret.args[1]) = U32(2700)
        /\ ret.out = FALSE

C8_Witness ==
    /\ CanHoldCalled
    /\ ret.args = <<R60x45, R30x50>>
    /\ ret.out = FALSE

\* The pairs <<instance, field>> whose value differs between two states of
\* the instances, among the instances of the first.
Changed(before, after) ==
    {<<i, f>> \in (DOMAIN before) \X UserFields : after[i][f] # before[i][f]}

\* C9: the fields of a mutable instance are reassigned independently: the
\* assignment user2.email = .. gives user2.email the new value and changes
\* no other field of user2 and no other instance; no step changes a field
\* of an instance that is not declared mut, and no step removes an instance.
C9_FieldsAreAssignedIndependently ==
    [][ /\ DOMAIN users \subseteq DOMAIN users'
        /\ \A c \in Changed(users, users') : c[1] \in Mutable
        /\ pc = "L54" /\ pc' # pc =>
             /\ users'["user2"].email = "someone@example.com"
             /\ Changed(users, users') = {<<"user2", "email">>}
      ]_vars

C9_Witness ==
    /\ pc = "L85"
    /\ users["user2"] =
         User("someone@example.com", "someusername123", TRUE, 1)
    /\ users["user1"] =
         User("someone@example.com", "someusername123", TRUE, 1)

\* C10: the four formulations of the area agree: area(w, h),
\* area_with_tuple((w, h)), area_using_struct(&Rectangle{w,h}) and
\* Rectangle{w,h}.area() return the same value, and overflow on the same
\* inputs.
C10_AreaFormulationsAgree ==
    /\ ret.op = "area" =>
         ret.out = Rectangle_area(Rectangle(ret.args[1], ret.args[2]),
                                  overflow_checks)
    /\ ret.op = "area_with_tuple" =>
         ret.out = Rectangle_area(Rectangle(ret.args[1][1], ret.args[1][2]),
                                  overflow_checks)
    /\ ret.op = "area_using_struct" =>
         ret.out = Rectangle_area(ret.args[1], overflow_checks)
    /\ ret.op = "Rectangle::area" =>
         /\ ret.out = area(ret.args[1].width, ret.args[1].height,
                           overflow_checks)
         /\ ret.out = area_with_tuple(
                          <<ret.args[1].width, ret.args[1].height>>,
                          overflow_checks)
         /\ ret.out = area_using_struct(ret.args[1], overflow_checks)

\* 65536 * 65536 = 2^32 wraps to 0 without overflow checks.
C10_Witness ==
    /\ ret.op = "area_with_tuple"
    /\ ~overflow_checks
    /\ ret.args = <<<<U32(65536), U32(65536)>>>>
    /\ ret.out = Value(U32(0))

\* The outcome of r.area() in the build at hand.
AreaOutcome(r) == Rectangle_area(r, overflow_checks)

\* C11, as stated: if a.can_hold(b) is true then a.area() > b.area(), for
\* the u32 values the code computes, the rectangles whose width * height is
\* beyond u32::MAX included.
C11_CanHoldImpliesLargerArea ==
    (CanHoldCalled /\ ret.out = TRUE) =>
        /\ AreaOutcome(ret.args[1]).kind = "value"
        /\ AreaOutcome(ret.args[2]).kind = "value"
        /\ Above(AreaOutcome(ret.args[1]).value,
                 AreaOutcome(ret.args[2]).value)

\* C11, amended: if a.can_hold(b) is true and the product a.width * a.height
\* is at most u32::MAX, then both areas are returned and a.area() > b.area().
C11_CanHoldImpliesLargerAreaWhenItFits ==
    (/\ CanHoldCalled
     /\ ret.out = TRUE
     /\ Fits(ret.args[1].width, ret.args[1].height)) =>
        /\ AreaOutcome(ret.args[1]).kind = "value"
        /\ AreaOutcome(ret.args[2]).kind = "value"
        /\ Above(AreaOutcome(ret.args[1]).value,
                 AreaOutcome(ret.args[2]).value)

\* Rectangle{65535,65535}, of area 4294836225, holds Rectangle{2,2}.
C11_Witness ==
    /\ CanHoldCalled
    /\ ret.args = <<Rectangle(U32(65535), U32(65535)),
                    Rectangle(U32(2), U32(2))>>
    /\ ret.out = TRUE
    /\ AreaOutcome(ret.args[1]) = Value(<<65534, 1>>)
    /\ AreaOutcome(ret.args[2]) = Value(U32(4))

====
